---- MODULE Spec2Model ----
(***************************************************************************)
(* A model of pretf's rendering engine: the Renderer / RenderJob scheduling *)
(* loop of pretf/render.py and the collect combinator of                    *)
(* pretf/collections.py.                                                    *)
(*                                                                          *)
(* Strings that the code splits or joins (dotted Block paths) are sequences *)
(* of tokens in which "." is a token of its own, so that split and join are *)
(* real functions.  A file path is the sequence of dot separated components *)
(* of its name, so that with_suffix and endswith are real functions.        *)
(* Mappings (dict) are functions with a finite domain of strings.           *)
(***************************************************************************)
EXTENDS Naturals, Integers, Sequences, FiniteSets, TLC

\* ------------------------------------------------------------------ bounds
\* number of files in files_to_create
NumFiles == 3
\* total number of producer steps (resumes that do not terminate) in a render
MaxSteps == 3
\* total number of factory calls and producer steps in a run of collect
MaxCSteps == 5
\* number of segments of the path of a Block
MaxSegs == 3

\* ------------------------------------------------------------ basic values
NoVar == ""
VarNames == {"x", "y"}
None == [kind |-> "None"]
NoResult == [kind |-> "NoResult"]

Range(s) == {s[i] : i \in DOMAIN s}
Front(s) == SubSeq(s, 1, Len(s) - 1)
Last(s) == s[Len(s)]

RECURSIVE Concat(_)
Concat(ss) == IF ss = <<>> THEN <<>> ELSE Head(ss) \o Concat(Tail(ss))

\* ------------------------------------------------------------------ state
VARIABLES
    files_to_create,  \* Renderer.files_to_create.values(): the source paths, in registration order
    variables,        \* Renderer.variables: the shared TerraformVariableStore
    jobs,             \* Renderer.jobs: the pending stack (top = last)
    done,             \* Renderer.done: the completed list
    gen,              \* RenderJob.gen: state of each producer
    job_done,         \* RenderJob.done
    return_value,     \* RenderJob.return_value
    blocks,           \* RenderJob.blocks: the content buffer
    stack,            \* the active process_jobs frames, innermost last
    status,           \* "running", "returned" or "aborted": how render() ended
    error,            \* the exception render() aborted with
    results,          \* the mapping render() returned
    nsteps,           \* producer steps begun so far
    emitted,          \* history: the items each producer yielded
    received,         \* history: the values each producer was resumed with
    calls,            \* every call of a collect factory: the locals of wrapped()
    cstack,           \* the active calls of wrapped(), innermost last
    var_stores,       \* the VariableStore objects wrapped() created
    block_lists,      \* the `blocks` lists wrapped() created
    output_maps,      \* the `outputs` dicts wrapped() created
    returned,         \* the Collections returned to the top-level caller
    cstatus,          \* "idle", "ready" (between calls) or "running"
    cerror,           \* the exception the last top-level call raised
    csteps,           \* factory calls and producer steps begun so far in collect
    tf_block,         \* a Block object: its __path and __body
    derived           \* the last value obtained from the Block: iter() or an attribute

vars == <<files_to_create, variables, jobs, done, gen, job_done, return_value,
          blocks, stack, status, error, results, nsteps, emitted, received,
          calls, cstack, var_stores, block_lists, output_maps, returned,
          cstatus, cerror, csteps, tf_block, derived>>

render_vars == <<files_to_create, variables, jobs, done, gen, job_done,
                 return_value, blocks, stack, status, error, results, nsteps,
                 emitted, received>>
collect_vars == <<calls, cstack, var_stores, block_lists, output_maps,
                  returned, cstatus, cerror, csteps>>
block_vars == <<tf_block, derived>>

\* ------------------------------------------------------------------ Block
\* str.split("."): the segments between the "." tokens of a path
RECURSIVE Split(_)
Split(path) ==
    IF path = <<>> THEN <<"">>
    ELSE IF path[1] = "." THEN <<"">> \o Split(Tail(path))
    ELSE IF Len(path) = 1 THEN <<path[1]>>
    ELSE <<path[1]>> \o Split(SubSeq(path, 3, Len(path)))

\* the loop of Block.__iter__: one nested mapping per part, the body at the bottom
RECURSIVE Nest(_, _)
Nest(parts, body) ==
    IF parts = <<>> THEN body ELSE (parts[1] :> Nest(Tail(parts), body))

\* Block.__iter__ nesting under the first segment alone
iter_first_segment(path, body) == (path[1] :> body)

\* Block.__iter__, collected into a dict as unwrap_yielded does
BlockIter(path, body) ==
    IF "." \in Range(path) THEN Nest(Split(path), body) ELSE (path[1] :> body)

Block(path, body) == [kind |-> "Block", path |-> path, body |-> body]
Dict(map) == [kind |-> "dict", map |-> map]
List(elems) == [kind |-> "list", elems |-> elems]

\* ".".join(parts)
RECURSIVE Join(_)
Join(parts) ==
    IF parts = <<>> THEN <<>>
    ELSE IF Len(parts) = 1 THEN <<parts[1]>>
    ELSE <<parts[1], ".">> \o Join(Tail(parts))

\* a plain str, as the characters of a dotted name
PlainStr(chars) == [kind |-> "str", chars |-> chars]

\* Interpolated(value)
Interpolated(value) == [kind |-> "Interpolated", value |-> value]

\* Interpolated.__str__
Interpolated_str(i) == <<"${">> \o i.value \o <<"}">>

\* Interpolated.__getattr__
Interpolated_getattr(i, attr) == Interpolated(i.value \o <<".", attr>>)

\* str(v) of a value an attribute access returned
str(v) == IF v.kind = "Interpolated" THEN Interpolated_str(v) ELSE v.chars

\* body.get("alias"), and its truth value
HasAlias(body) == "alias" \in DOMAIN body /\ body["alias"] # ""

\* Block.__getattr__ with the resource prefix kept
getattr_keeps_prefix(b, name) ==
    LET parts == Split(b.path)
    IN IF parts[1] = "variable"
       THEN Interpolated(Join(Append(<<"var">> \o Tail(parts), name)))
       ELSE IF parts[1] = "provider"
       THEN IF Len(parts) < 2 THEN [kind |-> "IndexError"]
            ELSE IF HasAlias(b.body)
            THEN PlainStr(<<parts[2], ".", b.body["alias"]>>)
            ELSE PlainStr(<<parts[2]>>)
       ELSE Interpolated(Join(Append(parts, name)))

\* Block.__getattr__ with the attribute name appended to a provider too
getattr_appends_always(b, name) ==
    LET parts == Split(b.path)
    IN IF parts[1] = "resource"
       THEN Interpolated(Join(Append(Tail(parts), name)))
       ELSE IF parts[1] = "variable"
       THEN Interpolated(Join(Append(<<"var">> \o Tail(parts), name)))
       ELSE IF parts[1] = "provider"
       THEN IF Len(parts) < 2 THEN [kind |-> "IndexError"]
            ELSE IF HasAlias(b.body)
            THEN PlainStr(<<parts[2], ".", b.body["alias"], ".", name>>)
            ELSE PlainStr(<<parts[2], ".", name>>)
       ELSE Interpolated(Join(Append(parts, name)))

\* Block.__getattr__: parts[1] of a path that is "provider" alone is an
\* IndexError
Block_getattr(b, name) ==
    LET parts == Split(b.path)
    IN IF parts[1] = "resource"
       THEN Interpolated(Join(Append(Tail(parts), name)))
       ELSE IF parts[1] = "variable"
       THEN Interpolated(Join(Append(<<"var">> \o Tail(parts), name)))
       ELSE IF parts[1] = "provider"
       THEN IF Len(parts) < 2 THEN [kind |-> "IndexError"]
            ELSE IF HasAlias(b.body)
            THEN PlainStr(<<parts[2], ".", b.body["alias"]>>)
            ELSE PlainStr(<<parts[2]>>)
       ELSE Interpolated(Join(Append(parts, name)))

\* ------------------------------------------------------------- Collection
\* Collection(blocks, outputs): the object holds the list and the dict it was
\* given, by reference
Collection(bid, oid) == [kind |-> "Collection", blocks |-> bid, outputs |-> oid]

\* isinstance(block, Collection)
IsCollection(block) == "kind" \in DOMAIN block /\ block["kind"] = "Collection"

\* Collection.__iter__ without the recursion into nested Collections
iter_shallow(bs) == bs

\* Collection.__iter__ over the list bs
RECURSIVE iter_blocks(_)
iter_blocks(bs) ==
    IF bs = <<>> THEN <<>>
    ELSE (IF IsCollection(Head(bs))
          THEN iter_blocks(block_lists[Head(bs).blocks])
          ELSE <<Head(bs)>>) \o iter_blocks(Tail(bs))

CollectionIter(coll) == iter_blocks(block_lists[coll.blocks])

\* Collection.__getattr__ returning None for a name that is no output
raise_nothing(coll, name) ==
    IF name \in DOMAIN output_maps[coll.outputs]
    THEN [ok |-> TRUE, value |-> output_maps[coll.outputs][name]]
    ELSE [ok |-> TRUE, value |-> None]

\* Collection.__getattr__
Collection_getattr(coll, name) ==
    IF name \in DOMAIN output_maps[coll.outputs]
    THEN [ok |-> TRUE, value |-> output_maps[coll.outputs][name]]
    ELSE [ok |-> FALSE, value |-> "output not defined"]

\* unwrap_yielded: the atomic blocks of a yielded item
unwrap_yielded(yielded) ==
    CASE yielded.kind = "Block" -> <<BlockIter(yielded.path, yielded.body)>>
      [] yielded.kind = "dict" -> <<yielded.map>>
      [] yielded.kind = "Collection" -> CollectionIter(yielded)
      [] OTHER -> yielded.elems

Jobs == 1..NumFiles

\* ------------------------------------------------------------- file names
\* PurePath.with_suffix: the last component of the name replaced
with_suffix(path, suffix) == Front(path) \o <<suffix>>

\* str.endswith on the components of a name
endswith(name, suffix) ==
    /\ Len(name) >= Len(suffix)
    /\ SubSeq(name, Len(name) - Len(suffix) + 1, Len(name)) = suffix

\* RenderJob.__init__: output_path and output_name of job j
output_path(j) == with_suffix(files_to_create[j], "json")
output_name(j) == output_path(j)
IsTfvars(j) == endswith(output_name(j), <<"tfvars", "json">>)

\* --------------------------------------------- TerraformVariableStore
\* `name in variables`: the variable has a value
Contains(store, name) == name \in DOMAIN store.values

\* get_variables_from_block: the definitions of a block keyed "variable"
get_variables_from_block(block) ==
    IF "variable" \in DOMAIN block
    THEN {[name |-> n, body |-> block["variable"][n]] : n \in DOMAIN block["variable"]}
    ELSE {}

\* add(VariableDefinition): registers the definition, not a value
AddDefinitions(store, defs) ==
    [store EXCEPT !.definitions = @ \cup {d.name : d \in defs}]

\* add(VariableValue, allow_change=False) fails on a different settled value
Conflicts(store, block) ==
    \E n \in DOMAIN block : n \in DOMAIN store.values /\ store.values[n] # block[n]

AddValues(store, block) == [store EXCEPT !.values = block @@ @]

tfvars_waiting_for(store, name) == name \in store.waiting

file_created(store, name) ==
    [store EXCEPT !.created = @ \cup {name}, !.waiting = @ \ {name}]

\* the read path of the proxy on a miss: the store now waits for every
\* variable-value file that is not created yet
BeginWait(store) ==
    [store EXCEPT !.waiting =
        {output_name(j) : j \in {i \in Jobs : IsTfvars(i)}} \ store.created]

\* ------------------------------------------------------------- RenderJob
\* the merge of contents() keeping the first value of a key
merge_keep_first(merged, block) == merged @@ block

\* RenderJob.contents: merged[name] = value for the items of a block
merge_update(merged, block) == block @@ merged

RECURSIVE MergeFrom(_, _, _)
MergeFrom(bs, i, merged) ==
    IF i > Len(bs) THEN merged ELSE MergeFrom(bs, i + 1, merge_update(merged, bs[i]))

\* RenderJob.contents
contents(j) ==
    IF IsTfvars(j) THEN MergeFrom(blocks[j], 1, <<>>) ELSE blocks[j]

\* RenderJob.process_tf_block
process_tf_block(store, block) ==
    [store |-> AddDefinitions(store, get_variables_from_block(block)), err |-> "none"]

\* process_tfvars_block adding the values whether or not the store waits
add_without_waiting(store, name, block) ==
    IF Conflicts(store, block)
    THEN [store |-> store, err |-> "VariableError"]
    ELSE [store |-> AddValues(store, block), err |-> "none"]

\* RenderJob.process_tfvars_block
process_tfvars_block(store, name, block) ==
    IF tfvars_waiting_for(store, name)
    THEN IF Conflicts(store, block)
         THEN [store |-> store, err |-> "VariableError"]
         ELSE [store |-> AddValues(store, block), err |-> "none"]
    ELSE [store |-> store, err |-> "none"]

\* the append of run() skipping variable blocks, as collect does
record_block_unless_variable(buf, block) ==
    IF "variable" \in DOMAIN block THEN buf ELSE Append(buf, block)

\* RenderJob.run, the statement self.blocks.append(block)
record_block(buf, block) == Append(buf, block)

\* RenderJob.run, the loop over unwrap_yielded(yielded): st = [store, buf, err]
RECURSIVE RunBlocks(_, _, _, _)
RunBlocks(j, bs, i, st) ==
    IF i > Len(bs) \/ st.err # "none" THEN st
    ELSE LET r == IF IsTfvars(j)
                  THEN process_tfvars_block(st.store, output_name(j), bs[i])
                  ELSE process_tf_block(st.store, bs[i])
         IN RunBlocks(j, bs, i + 1,
                [store |-> r.store,
                 buf |-> IF r.err = "none" THEN record_block(st.buf, bs[i]) ELSE st.buf,
                 err |-> r.err])

\* the except clause of run() catching every exception
run_catches_all(exc) == "done"

\* RenderJob.run, the try/except around gen.send: what run() does with an
\* exception leaving the producer
run_catches(exc) == IF exc = "StopIteration" THEN "done" ELSE "raise"

\* run() not recording the item it was yielded
keep_return_value(old, yielded) == old

\* RenderJob.run, self.return_value = yielded
next_return_value(old, yielded) == yielded

\* process_jobs taking the last job without removing it
peek_job(pending) == pending

\* Renderer.process_jobs, job = self.jobs.pop(): what is left of the list
pop_job(pending) == Front(pending)

\* process_jobs putting an unfinished job at the bottom of the stack
push_bottom(pending, j, finished) == IF finished THEN pending ELSE <<j>> \o pending

\* process_jobs pushing the job back whatever run() returned
repush_always(pending, j, finished) == Append(pending, j)

\* Renderer.process_jobs, else: self.jobs.append(job)
after_run(pending, j, finished) == IF finished THEN pending ELSE Append(pending, j)

\* process_jobs forgetting a finished job
drop_done(d, j) == d

\* Renderer.process_jobs, if done: self.done.append(job)
move_to_done(d, j) == Append(d, j)

\* ------------------------------------------------------- producer steps
\* What a producer does between two suspension points: it may read one
\* variable through its proxy, and then yields an item built from the value.
VarPath(name) == <<"variable", ".", name>>
ResPath == <<"resource", ".", "null", ".", "r">>

MakeItem(tmpl, val) ==
    CASE tmpl = "var_x" -> Block(VarPath("x"), <<>>)
      [] tmpl = "res" -> Block(ResPath, ("val" :> val))
      [] tmpl = "pair" -> List(<<BlockIter(VarPath("x"), <<>>),
                                 BlockIter(ResPath, ("val" :> val))>>)
      [] tmpl = "set_x" -> Dict(("x" :> val))
      [] tmpl = "set_y" -> Dict(("y" :> val))
      [] tmpl = "set_xb" -> Dict(("x" :> "b"))
      [] OTHER -> List(<<("x" :> val), ("x" :> "b" @@ "y" :> val)>>)

Step(read, tmpl) == [read |-> read, tmpl |-> tmpl]

StepsOf(j) ==
    IF IsTfvars(j)
    THEN {Step(NoVar, "set_x"), Step("y", "set_x"), Step("x", "set_y"),
          Step(NoVar, "set_xb"), Step(NoVar, "twice")}
    ELSE {Step(NoVar, "var_x"), Step("x", "res"), Step("y", "pair")}

\* the value a step builds its item from
StepValue(store, step) ==
    IF step.read = NoVar THEN "a" ELSE store.values[step.read]

\* ------------------------------------------------------------------- Init
EmptyStore == [values |-> <<>>, definitions |-> {}, waiting |-> {}, created |-> {}]

NoDerived == [op |-> "none", name |-> "", value |-> None]

BlockIdle ==
    /\ tf_block = None
    /\ derived = NoDerived

CollectIdle ==
    /\ calls = <<>>
    /\ cstack = <<>>
    /\ var_stores = <<>>
    /\ block_lists = <<>>
    /\ output_maps = <<>>
    /\ returned = <<>>
    /\ cerror = "none"
    /\ csteps = 0

\* a run of Renderer(files_to_create).render()
InitRender ==
    /\ cstatus = "idle"
    /\ CollectIdle
    /\ BlockIdle
    /\ files_to_create \in
          {[j \in Jobs |-> <<j, k[j], "py">>] : k \in [Jobs -> {"tf", "tfvars"}]}
    /\ variables \in {EmptyStore, [EmptyStore EXCEPT !.values = ("x" :> "a")]}
    /\ jobs = [j \in Jobs |-> j]
    /\ done = <<>>
    /\ gen = [j \in Jobs |-> "suspended"]
    /\ job_done = [j \in Jobs |-> FALSE]
    /\ return_value = [j \in Jobs |-> None]
    /\ blocks = [j \in Jobs |-> <<>>]
    /\ stack = <<[until |-> NoVar, job |-> 0, step |-> None]>>
    /\ status = "running"
    /\ error = "none"
    /\ results = NoResult
    /\ nsteps = 0
    /\ emitted = [j \in Jobs |-> <<>>]
    /\ received = [j \in Jobs |-> <<>>]

\* ---------------------------------------------------------------- actions
Top == stack[Len(stack)]
Depth == Len(stack)

\* process_jobs never testing `until`
until_ignored(store, until) == FALSE

\* process_jobs, the test `if until and until in self.variables`
until_reached(store, until) == until # NoVar /\ Contains(store, until)

\* process_jobs going on to the next iteration where it should leave the loop
continues_loop(store, until) == FALSE

\* process_jobs, the `break` of a nested loop whose variable has a value
breaks_loop(store, until) == Contains(store, until)

\* the innermost process_jobs frame is at the head of its loop and pops a job
CanPop ==
    /\ status = "running"
    /\ Top.job = 0
    /\ jobs # <<>>
    /\ ~until_reached(variables, Top.until)

\* an exception propagates out of every frame and out of render()
Abort(exc) ==
    /\ status' = "aborted"
    /\ error' = exc
    /\ stack' = <<>>

\* run() returned True in frame `frames[Len(frames)]`: file_created, done.append
Completed(j, frames, pending) ==
    /\ variables' = file_created(variables, output_name(j))
    /\ done' = move_to_done(done, j)
    /\ jobs' = after_run(pending, j, TRUE)
    /\ stack' = [frames EXCEPT ![Len(frames)] = [@ EXCEPT !.job = 0, !.step = None]]
    /\ UNCHANGED <<status, error, blocks, return_value, emitted>>

\* the producer of j yielded `item` in frame `frames[Len(frames)]`: the rest of
\* run() and the re-push of process_jobs
Yielded(j, item, frames, pending) ==
    LET st == RunBlocks(j, unwrap_yielded(item), 1,
                        [store |-> variables, buf |-> blocks[j], err |-> "none"])
    IN /\ return_value' = [return_value EXCEPT ![j] = next_return_value(@, item)]
       /\ emitted' = [emitted EXCEPT ![j] = Append(@, item)]
       /\ variables' = st.store
       /\ blocks' = [blocks EXCEPT ![j] = st.buf]
       /\ gen' = [gen EXCEPT ![j] = IF st.err = "none" THEN "suspended" ELSE @]
       /\ IF st.err = "none"
          THEN /\ jobs' = after_run(pending, j, FALSE)
               /\ stack' = [frames EXCEPT ![Len(frames)] =
                               [@ EXCEPT !.job = 0, !.step = None]]
               /\ UNCHANGED <<status, error>>
          ELSE /\ Abort(st.err)
               /\ jobs' = pending
       /\ UNCHANGED done

\* process_jobs pops a job whose producer terminates
Stop ==
    /\ CanPop
    /\ LET j == Last(jobs)
       IN /\ received' = [received EXCEPT ![j] = Append(@, return_value[j])]
          /\ gen' = [gen EXCEPT ![j] = "finished"]
          /\ IF run_catches("StopIteration") = "done"
             THEN Completed(j, stack, pop_job(jobs))
             ELSE /\ Abort("StopIteration")
                  /\ jobs' = pop_job(jobs)
                  /\ UNCHANGED <<variables, done, blocks, return_value, emitted>>
    /\ UNCHANGED <<collect_vars, block_vars>>
    /\ UNCHANGED <<files_to_create, job_done, results, nsteps>>

\* process_jobs pops a job whose producer takes a step without waiting
Yield ==
    /\ CanPop
    /\ nsteps < MaxSteps
    /\ LET j == Last(jobs)
       IN \E step \in StepsOf(j) :
            /\ step.read # NoVar => Contains(variables, step.read)
            /\ received' = [received EXCEPT ![j] = Append(@, return_value[j])]
            /\ Yielded(j, MakeItem(step.tmpl, StepValue(variables, step)),
                       stack, pop_job(jobs))
    /\ nsteps' = nsteps + 1
    /\ UNCHANGED <<collect_vars, block_vars>>
    /\ UNCHANGED <<files_to_create, job_done, results>>

\* process_jobs pops a job whose producer reads a variable that has no value:
\* the store calls process_jobs(until=name) from inside the read
Wait ==
    /\ CanPop
    /\ nsteps < MaxSteps
    /\ LET j == Last(jobs)
       IN \E step \in StepsOf(j) :
            /\ step.read # NoVar
            /\ ~Contains(variables, step.read)
            /\ received' = [received EXCEPT ![j] = Append(@, return_value[j])]
            /\ gen' = [gen EXCEPT ![j] = "running"]
            /\ variables' = BeginWait(variables)
            /\ jobs' = pop_job(jobs)
            /\ stack' = Append([stack EXCEPT ![Depth] = [@ EXCEPT !.job = j, !.step = step]],
                               [until |-> step.read, job |-> 0, step |-> None])
    /\ nsteps' = nsteps + 1
    /\ UNCHANGED <<collect_vars, block_vars>>
    /\ UNCHANGED <<files_to_create, done, job_done, return_value, blocks, status,
                   error, results, emitted>>

\* the innermost process_jobs(until=name) leaves its loop
WaitOver ==
    /\ status = "running"
    /\ Depth > 1
    /\ Top.job = 0
    /\ (jobs = <<>> \/ breaks_loop(variables, Top.until))

\* ... with the variable available: the read returns and the producer yields
WaitOk ==
    /\ WaitOver
    /\ Contains(variables, Top.until)
    /\ LET frames == Front(stack)
           j == Last(frames).job
           step == Last(frames).step
       IN Yielded(j, MakeItem(step.tmpl, StepValue(variables, step)), frames, jobs)
    /\ UNCHANGED <<collect_vars, block_vars>>
    /\ UNCHANGED <<files_to_create, job_done, results, nsteps, received>>

\* ... with the pending stack exhausted and the variable still missing: the
\* read raises VariableNotPopulated inside the producer
WaitFail ==
    /\ WaitOver
    /\ ~Contains(variables, Top.until)
    /\ LET frames == Front(stack)
           j == Last(frames).job
       IN /\ gen' = [gen EXCEPT ![j] = "raised"]
          /\ IF run_catches("VariableNotPopulated") = "done"
             THEN Completed(j, frames, jobs)
             ELSE /\ Abort("VariableNotPopulated")
                  /\ UNCHANGED <<variables, jobs, done, blocks, return_value, emitted>>
    /\ UNCHANGED <<collect_vars, block_vars>>
    /\ UNCHANGED <<files_to_create, job_done, results, nsteps, received>>

\* Renderer.render, after process_jobs() returned: the result mapping
RECURSIVE ResultsOf(_, _)
ResultsOf(d, n) ==
    IF n = 0 THEN <<>>
    ELSE (output_path(d[n]) :> contents(d[n])) @@ ResultsOf(d, n - 1)

RenderReturn ==
    /\ status = "running"
    /\ Depth = 1
    /\ Top.job = 0
    /\ jobs = <<>>
    /\ results' = ResultsOf(done, Len(done))
    /\ status' = "returned"
    /\ stack' = <<>>
    /\ UNCHANGED <<collect_vars, block_vars>>
    /\ UNCHANGED <<files_to_create, variables, jobs, done, gen, job_done,
                   return_value, blocks, error, nsteps, emitted, received>>

\* ---------------------------------------------------------------- collect
\* VariableStore.add(VariableValue): the value is set
StoreAddValue(store, name, value) == (name :> value) @@ store

\* VariableStore.add(VariableDefinition): a default becomes the value of a
\* variable that has none
StoreAddDefinition(store, def) ==
    IF "default" \in DOMAIN def.body /\ def.name \notin DOMAIN store
    THEN (def.name :> def.body["default"]) @@ store
    ELSE store

RECURSIVE StoreAddDefinitions(_, _)
StoreAddDefinitions(store, defs) ==
    IF defs = {} THEN store
    ELSE LET d == CHOOSE d \in defs : TRUE
         IN StoreAddDefinitions(StoreAddDefinition(store, d), defs \ {d})

\* get_outputs_from_block: the outputs of a block keyed "output"
get_outputs_from_block(block) ==
    IF "output" \in DOMAIN block
    THEN {[name |-> n, value |-> block["output"][n]["value"]] : n \in DOMAIN block["output"]}
    ELSE {}

\* the assignment keeping the first value of an output name
keep_first_output(outputs, name, value) ==
    IF name \in DOMAIN outputs THEN outputs ELSE (name :> value) @@ outputs

\* wrapped(), outputs[name] = value
set_output(outputs, name, value) == (name :> value) @@ outputs

RECURSIVE SetOutputs(_, _)
SetOutputs(outputs, outs) ==
    IF outs = {} THEN outputs
    ELSE LET o == CHOOSE o \in outs : TRUE
         IN SetOutputs(set_output(outputs, o.name, o.value), outs \ {o})

\* the test of wrapped() looking at the variables alone
keep_unless_variable(var, output) == ~var

\* wrapped(), if not var and not output
keep_block(var, output) == ~var /\ ~output

\* wrapped(), the loop over unwrap_yielded(yielded):
\* st = [store, outputs, blocks, log]; log is the history of classifications
RECURSIVE ClassifyBlocks(_, _, _)
ClassifyBlocks(bs, i, st) ==
    IF i > Len(bs) THEN st
    ELSE LET defs == get_variables_from_block(bs[i])
             outs == get_outputs_from_block(bs[i])
             keep == keep_block(defs # {}, outs # {})
         IN ClassifyBlocks(bs, i + 1,
                [store |-> StoreAddDefinitions(st.store, defs),
                 outputs |-> SetOutputs(st.outputs, outs),
                 blocks |-> IF keep THEN Append(st.blocks, bs[i]) ELSE st.blocks,
                 log |-> Append(st.log, [var |-> defs # {}, out |-> outs # {},
                                         kept |-> keep])])

\* one VariableStore created with the factory and used by all its calls
shared_store(stores) ==
    IF stores = <<>> THEN [id |-> 1, heap |-> <<<<>>>>] ELSE [id |-> 1, heap |-> stores]

\* wrapped(), var_store = VariableStore(): a new object for every call
new_store(stores) == [id |-> Len(stores) + 1, heap |-> Append(stores, <<>>)]

\* wrapped(), the loading of kwargs into the store
RECURSIVE LoadKwargs(_, _, _)
LoadKwargs(store, kwargs, names) ==
    IF names = {} THEN store
    ELSE LET n == CHOOSE n \in names : TRUE
         IN LoadKwargs(StoreAddValue(store, n, kwargs[n]), kwargs, names \ {n})

\* the producer resumed with next(gen)
send_nothing(yielded) == None

\* wrapped(), gen.send(yielded): the value the producer is resumed with
sent_value(yielded) == yielded

\* the except clause of wrapped() catching every exception
collect_catches_all(exc) == "break"

\* wrapped(), the try/except around gen.send
collect_catches(exc) == IF exc = "StopIteration" THEN "break" ELSE "raise"

OutPath(name) == <<"output", ".", name>>
Str(s) == [kind |-> "str", s |-> s]

\* the item a producer step yields, from the value it read and the value it
\* was resumed with
MakeCItem(tmpl, val, recv) ==
    CASE tmpl = "var_y" -> Block(VarPath("y"), ("default" :> "d"))
      [] tmpl = "res" -> Block(ResPath, ("val" :> val))
      [] tmpl = "out_recv" -> Block(OutPath("o"), ("value" :> recv))
      [] OTHER -> Dict(("output" :> ("o" :> ("value" :> Str(val)))))

CSteps ==
    {Step(NoVar, "var_y"), Step(NoVar, "res"), Step("y", "res"), Step(NoVar, "out_recv"),
     Step("x", "out_val")}

TopKwargs == {<<>>, ("x" :> "a"), ("x" :> "b")}
NestedKwargs == {("x" :> "b")}
Forms == {"coll", "listed"}

\* how a producer yields the Collection a nested factory returned
NestedItem(form, coll) ==
    IF form = "coll" THEN coll
    ELSE List(<<coll, BlockIter(ResPath, ("val" :> "n"))>>)

\* wrapped(**kwargs) up to the loop: the locals of a new call
NewCall(kwargs, sid, bid, oid) ==
    [kwargs |-> kwargs, sid |-> sid, bid |-> bid, oid |-> oid, yielded |-> None,
     state |-> "active", form |-> "none",
     yields |-> <<>>, recv |-> <<>>, reads |-> <<>>, log |-> <<>>]

\* a run of calls of one collect factory
InitCollect ==
    /\ cstatus = "ready"
    /\ CollectIdle
    /\ BlockIdle
    /\ files_to_create = <<>>
    /\ variables = EmptyStore
    /\ jobs = <<>>
    /\ done = <<>>
    /\ gen = <<>>
    /\ job_done = <<>>
    /\ return_value = <<>>
    /\ blocks = <<>>
    /\ stack = <<>>
    /\ status = "idle"
    /\ error = "none"
    /\ results = NoResult
    /\ nsteps = 0
    /\ emitted = <<>>
    /\ received = <<>>

RenderIdle ==
    /\ files_to_create = <<>>
    /\ variables = EmptyStore
    /\ jobs = <<>>
    /\ done = <<>>
    /\ gen = <<>>
    /\ job_done = <<>>
    /\ return_value = <<>>
    /\ blocks = <<>>
    /\ stack = <<>>
    /\ status = "idle"
    /\ error = "none"
    /\ results = NoResult
    /\ nsteps = 0
    /\ emitted = <<>>
    /\ received = <<>>

\* the segments and attribute names of the paths of Blocks, and their bodies
SegNames == {"resource", "variable", "provider", "aws", "aws_iam_user", "peanut"}
AttrNames == {"arn", "name"}
Bodies == {<<>>, ("alias" :> "east"), ("alias" :> ""), ("name" :> "n")}
Segments == UNION {[1..n -> SegNames] : n \in 1..MaxSegs}

\* a Block constructed from a dotted path and a body
InitBlock ==
    /\ cstatus = "idle"
    /\ CollectIdle
    /\ RenderIdle
    /\ \E segs \in Segments, body \in Bodies : tf_block = Block(Join(segs), body)
    /\ derived = NoDerived

Init == InitRender \/ InitCollect \/ InitBlock

\* wrapped() starts: store, kwargs, generator, blocks, outputs
StartCall(kwargs, base, frames) ==
    LET s == new_store(var_stores)
        bid == Len(block_lists) + 1
        oid == Len(output_maps) + 1
    IN /\ var_stores' = [s.heap EXCEPT ![s.id] = LoadKwargs(@, kwargs, DOMAIN kwargs)]
       /\ block_lists' = Append(block_lists, <<>>)
       /\ output_maps' = Append(output_maps, <<>>)
       /\ calls' = Append(base, NewCall(kwargs, s.id, bid, oid))
       /\ cstack' = Append(frames, Len(base) + 1)

\* the caller calls the factory
CallTop ==
    /\ cstatus = "ready"
    /\ csteps < MaxCSteps
    /\ \E kwargs \in TopKwargs : StartCall(kwargs, calls, <<>>)
    /\ cstatus' = "running"
    /\ cerror' = "none"
    /\ csteps' = csteps + 1
    /\ UNCHANGED returned
    /\ UNCHANGED <<render_vars, block_vars>>

CTop == Last(cstack)

\* the producer of call c is resumed
Resumed(c) == [calls EXCEPT ![c].recv = Append(@, sent_value(calls[c].yielded))]

\* the producer of call c yielded `item`: the rest of the loop body
Consume(c, item, base) ==
    LET st == ClassifyBlocks(unwrap_yielded(item), 1,
                  [store |-> var_stores[base[c].sid],
                   outputs |-> output_maps[base[c].oid],
                   blocks |-> block_lists[base[c].bid],
                   log |-> base[c].log])
    IN /\ var_stores' = [var_stores EXCEPT ![base[c].sid] = st.store]
       /\ output_maps' = [output_maps EXCEPT ![base[c].oid] = st.outputs]
       /\ block_lists' = [block_lists EXCEPT ![base[c].bid] = st.blocks]
       /\ calls' = [base EXCEPT ![c].yielded = item,
                                ![c].yields = Append(@, item),
                                ![c].form = "none",
                                ![c].log = st.log]

\* the producer takes a step: it reads a variable that has a value (or none)
\* and yields a block
CStep ==
    /\ cstatus = "running"
    /\ csteps < MaxCSteps
    /\ LET c == CTop
           store == var_stores[calls[c].sid]
       IN \E step \in CSteps :
            /\ step.read # NoVar => step.read \in DOMAIN store
            /\ LET val == IF step.read = NoVar THEN "a" ELSE store[step.read]
                   base == IF step.read = NoVar THEN Resumed(c)
                           ELSE [Resumed(c) EXCEPT ![c].reads = Append(@,
                                    [name |-> step.read, result |-> val,
                                     at |-> Len(calls[c].yields)])]
               IN Consume(c, MakeCItem(step.tmpl, val, Last(base[c].recv)), base)
    /\ csteps' = csteps + 1
    /\ UNCHANGED <<cstack, returned, cstatus, cerror>>
    /\ UNCHANGED <<render_vars, block_vars>>

\* wrapped() of call c ends with Collection(blocks, outputs); frames are the
\* calls below it
Returns(c, base, frames) ==
    LET coll == Collection(base[c].bid, base[c].oid)
        done_c == [base EXCEPT ![c].state = "returned"]
    IN IF frames = <<>>
       THEN /\ returned' = Append(returned, coll)
            /\ cstatus' = "ready"
            /\ calls' = done_c
            /\ cstack' = <<>>
            /\ UNCHANGED <<var_stores, block_lists, output_maps, cerror>>
       ELSE /\ Consume(Last(frames), NestedItem(base[Last(frames)].form, coll), done_c)
            /\ cstack' = frames
            /\ UNCHANGED <<returned, cstatus, cerror>>

\* the producer reads a variable that has no value: the proxy raises
\* VariableNotPopulated inside the producer
CReadFail ==
    /\ cstatus = "running"
    /\ csteps < MaxCSteps
    /\ LET c == CTop
           store == var_stores[calls[c].sid]
       IN \E name \in VarNames :
            /\ name \notin DOMAIN store
            /\ LET base == [Resumed(c) EXCEPT ![c].reads = Append(@,
                                [name |-> name, result |-> "VariableNotPopulated",
                                 at |-> Len(calls[c].yields)])]
               IN IF collect_catches("VariableNotPopulated") = "break"
                  THEN Returns(c, base, Front(cstack))
                  ELSE /\ calls' = [i \in DOMAIN base |->
                                      IF i \in Range(cstack)
                                      THEN [base[i] EXCEPT !.state = "raised"]
                                      ELSE base[i]]
                       /\ cstack' = <<>>
                       /\ cstatus' = "ready"
                       /\ cerror' = "VariableNotPopulated"
                       /\ UNCHANGED <<var_stores, block_lists, output_maps, returned>>
    /\ csteps' = csteps + 1
    /\ UNCHANGED <<render_vars, block_vars>>

\* the producer calls a nested factory, whose Collection it will yield
CNested ==
    /\ cstatus = "running"
    /\ csteps < MaxCSteps
    /\ \E kwargs \in NestedKwargs, form \in Forms :
          StartCall(kwargs, [Resumed(CTop) EXCEPT ![CTop].form = form], cstack)
    /\ csteps' = csteps + 1
    /\ UNCHANGED <<returned, cstatus, cerror>>
    /\ UNCHANGED <<render_vars, block_vars>>

\* the producer terminates: StopIteration ends the loop of wrapped()
CReturn ==
    /\ cstatus = "running"
    /\ Returns(CTop, Resumed(CTop), Front(cstack))
    /\ UNCHANGED csteps
    /\ UNCHANGED <<render_vars, block_vars>>

\* -------------------------------------------------------- Block accesses
\* dict(iter(block)), as unwrap_yielded flattens a Block
BlockFlatten ==
    /\ tf_block.kind = "Block"
    /\ derived' = [op |-> "iter", name |-> "",
                   value |-> BlockIter(tf_block.path, tf_block.body)]
    /\ UNCHANGED tf_block
    /\ UNCHANGED <<render_vars, collect_vars>>

\* block.<name>
BlockAttr ==
    /\ tf_block.kind = "Block"
    /\ \E name \in AttrNames :
          derived' = [op |-> "getattr", name |-> name,
                      value |-> Block_getattr(tf_block, name)]
    /\ UNCHANGED tf_block
    /\ UNCHANGED <<render_vars, collect_vars>>

\* block.<name>.<attr>: chained access on the Interpolated
InterpolatedAttr ==
    /\ derived.op = "getattr"
    /\ derived.value.kind = "Interpolated"
    /\ \E attr \in AttrNames :
          derived' = [op |-> "chain", name |-> attr,
                      value |-> Interpolated_getattr(derived.value, attr)]
    /\ UNCHANGED tf_block
    /\ UNCHANGED <<render_vars, collect_vars>>

Next ==
    \/ Stop \/ Yield \/ Wait \/ WaitOk \/ WaitFail \/ RenderReturn
    \/ CallTop \/ CStep \/ CReadFail \/ CNested \/ CReturn
    \/ BlockFlatten \/ BlockAttr \/ InterpolatedAttr

Spec == Init /\ [][Next]_vars

\* ================================================================ claims
InFlight == {stack[i].job : i \in DOMAIN stack} \ {0}

\* C1: whenever render() returns, the pending stack is empty, every job is in
\* the completed list exactly once, and the returned mapping has an entry for
\* the output path of every job.
C1_RenderComplete ==
    status = "returned" =>
        /\ jobs = <<>>
        /\ \A j \in Jobs :
              /\ Cardinality({i \in DOMAIN done : done[i] = j}) = 1
              /\ output_path(j) \in DOMAIN results

\* a render returned after a variable was populated by a variable-value file
\* during a re-entrant wait
C1_Witness ==
    /\ status = "returned"
    /\ "y" \in DOMAIN variables.values
    /\ \E j \in Jobs : Len(blocks[j]) > 1

\* a re-entrant process_jobs(until=v) has emptied the pending stack and v has
\* no value
C2_Exhausted == WaitOver /\ ~Contains(variables, Top.until)

\* C2: when a re-entrant process_jobs(until=v) has emptied the pending stack
\* and v is still not available, the next step is the failure of the read:
\* VariableNotPopulated leaves every run()/process_jobs() frame and render()
\* aborts without a result; an aborted render never has a result.
C2_ReadFailureAborts ==
    /\ [][C2_Exhausted =>
            /\ status' = "aborted"
            /\ error' = "VariableNotPopulated"
            /\ stack' = <<>>
            /\ results' = NoResult]_vars
    /\ [](status = "aborted" => results = NoResult /\ stack = <<>>)

\* a render aborted with VariableNotPopulated after the nested loop had run
\* another job to completion
C2_Witness ==
    /\ status = "aborted"
    /\ error = "VariableNotPopulated"
    /\ done # <<>>

\* the atomic blocks of the items the producer of j yielded, in order
EmittedBlocks(j) == Concat([i \in DOMAIN emitted[j] |-> unwrap_yielded(emitted[j][i])])

\* C9: at every point of a render that has not aborted, the content buffer of
\* each job is the concatenation, in emission order, of the atomic blocks of
\* the items its producer yielded, unfiltered.
C9_BufferIsEmission ==
    status \in {"running", "returned"} =>
        \A j \in Jobs : blocks[j] = EmittedBlocks(j)

\* a job suspended in a variable wait holds its blocks, a variable definition
\* among them, while another job has recorded blocks of its own
C9_Witness ==
    /\ status = "running"
    /\ \E j \in InFlight, k \in Jobs :
          /\ k # j
          /\ Len(blocks[k]) > 0
          /\ \E i \in DOMAIN blocks[j] : "variable" \in DOMAIN blocks[j][i]

\* the mapping that gives each key the value of the last block that has it
LastWins(bs) ==
    [k \in UNION {DOMAIN bs[i] : i \in DOMAIN bs} |->
        LET last == CHOOSE i \in DOMAIN bs :
                        /\ k \in DOMAIN bs[i]
                        /\ \A m \in DOMAIN bs : k \in DOMAIN bs[m] => m <= i
        IN bs[last][k]]

\* C10: contents() of a variable-value file is the mapping that gives each key
\* the value of the last collected block that has the key; contents() of any
\* other file is the list of collected blocks.
C10_Contents ==
    status = "returned" =>
        \A j \in Jobs :
            output_path(j) \in DOMAIN results =>
                IF IsTfvars(j)
                THEN results[output_path(j)] = LastWins(blocks[j])
                ELSE results[output_path(j)] = blocks[j]

\* a returned render with a variable-value file whose blocks disagree on a
\* key and a definition file with blocks
C10_Witness ==
    /\ status = "returned"
    /\ \E j \in Jobs :
          /\ IsTfvars(j)
          /\ \E a, b \in DOMAIN blocks[j] :
                a < b /\ "x" \in DOMAIN blocks[j][a] /\ "x" \in DOMAIN blocks[j][b]
                      /\ blocks[j][a]["x"] # blocks[j][b]["x"]
    /\ \E j \in Jobs : ~IsTfvars(j) /\ Len(blocks[j]) > 0

\* ----------------------------------------------- what a producer yielded
Calls == DOMAIN calls

\* the Collection wrapped() builds for call c, and the call a Collection is of
CollectionOf(c) == Collection(calls[c].bid, calls[c].oid)
CallOf(coll) == CHOOSE c \in Calls : calls[c].bid = coll.blocks

\* the mappings a yielded item itself carries, nested Collections left aside
OwnBlocks(item) ==
    CASE item.kind = "Block" -> <<BlockIter(item.path, item.body)>>
      [] item.kind = "dict" -> <<item.map>>
      [] item.kind = "list" ->
            SelectSeq(item.elems, LAMBDA e : ~IsCollection(e))
      [] OTHER -> <<>>

IsVariableBlock(b) == "variable" \in DOMAIN b
IsOutputBlock(b) == "output" \in DOMAIN b
IsOrdinary(b) == ~IsVariableBlock(b) /\ ~IsOutputBlock(b)

\* the ordinary blocks of the items call c yielded, a nested Collection
\* standing for the ordinary blocks of the call that built it
RECURSIVE ExpectedIter(_)
ExpectedOfElem(e) ==
    IF IsCollection(e) THEN ExpectedIter(CallOf(e))
    ELSE IF IsOrdinary(e) THEN <<e>> ELSE <<>>

ExpectedOfItem(item) ==
    CASE item.kind = "Collection" -> ExpectedIter(CallOf(item))
      [] item.kind = "list" ->
            Concat([i \in DOMAIN item.elems |-> ExpectedOfElem(item.elems[i])])
      [] OTHER -> SelectSeq(OwnBlocks(item), IsOrdinary)

ExpectedIter(c) ==
    Concat([i \in DOMAIN calls[c].yields |-> ExpectedOfItem(calls[c].yields[i])])

ReturnedCalls == {c \in Calls : calls[c].state = "returned"}

\* C3: iterating the Collection of a call yields the ordinary blocks of the
\* producer in yield order, every nested Collection replaced in place by its
\* own ordinary blocks, recursively; no variable block, no output block and
\* no Collection appears.
C3_IterationOrder ==
    \A c \in ReturnedCalls :
        LET it == CollectionIter(CollectionOf(c))
        IN /\ it = ExpectedIter(c)
           /\ \A i \in DOMAIN it : ~IsCollection(it[i]) /\ IsOrdinary(it[i])

\* a returned Collection whose producer yielded a variable block, an ordinary
\* block and, inside a list, a nested Collection that is not empty
C3_Witness ==
    \E c \in ReturnedCalls :
        /\ \E i \in DOMAIN calls[c].yields :
              /\ calls[c].yields[i].kind = "list"
              /\ Len(CollectionIter(calls[c].yields[i].elems[1])) > 0
        /\ \E i \in DOMAIN calls[c].yields :
              /\ calls[c].yields[i].kind = "Block"
              /\ IsVariableBlock(OwnBlocks(calls[c].yields[i])[1])
        /\ Len(CollectionIter(CollectionOf(c))) >= 3

\* the defaults call c declared in its first n yields
DefaultsBefore(c, n) ==
    {name \in VarNames :
        \E i \in 1..n : \E k \in DOMAIN OwnBlocks(calls[c].yields[i]) :
            LET b == OwnBlocks(calls[c].yields[i])[k]
            IN /\ IsVariableBlock(b)
               /\ name \in DOMAIN b["variable"]
               /\ "default" \in DOMAIN b["variable"][name]}

\* C4: a read of a variable that has no keyword and no default yielded before
\* the read raises VariableNotPopulated and the call returns no Collection; a
\* read of a variable whose default was yielded before, and that has no
\* keyword, gives the default.
C4_MissingInput ==
    \A c \in Calls : \A i \in DOMAIN calls[c].reads :
        LET r == calls[c].reads[i]
        IN r.name \notin DOMAIN calls[c].kwargs =>
              IF r.name \in DefaultsBefore(c, r.at)
              THEN r.result = "d"
              ELSE /\ r.result = "VariableNotPopulated"
                   /\ calls[c].state = "raised"
                   /\ \A k \in DOMAIN returned : returned[k] # CollectionOf(c)

\* one call raised on a variable without keyword, another read a default
C4_Witness ==
    /\ cerror = "VariableNotPopulated" \/ \E c \in Calls : calls[c].state = "raised"
    /\ \E c \in Calls : \E i \in DOMAIN calls[c].reads :
          calls[c].reads[i].result = "d"
    /\ \E c \in Calls : \E i \in DOMAIN calls[c].reads :
          /\ calls[c].reads[i].result = "VariableNotPopulated"
          /\ calls[c].state = "raised"

\* the outputs the items of call c declared, in yield order
DeclaredOutputs(c) ==
    LET own == Concat([i \in DOMAIN calls[c].yields |-> OwnBlocks(calls[c].yields[i])])
    IN SelectSeq(own, IsOutputBlock)

OutputNames == {"o", "r", "nope"}

\* C5: attribute access on the Collection of a call succeeds exactly for the
\* names its output blocks declared, with the value of the last output block
\* of that name; for any other name it raises "output not defined".
C5_Outputs ==
    \A c \in ReturnedCalls : \A name \in OutputNames :
        LET decl == SelectSeq(DeclaredOutputs(c), LAMBDA b : name \in DOMAIN b["output"])
            got == Collection_getattr(CollectionOf(c), name)
        IN IF decl = <<>>
           THEN ~got.ok /\ got.value = "output not defined"
           ELSE got.ok /\ got.value = Last(decl)["output"][name]["value"]

\* a returned Collection with two output blocks of one name and different
\* values
C5_Witness ==
    \E c \in ReturnedCalls :
        /\ Len(DeclaredOutputs(c)) >= 2
        /\ DeclaredOutputs(c)[1]["output"]["o"]["value"].kind = "Block"
        /\ output_maps[calls[c].oid]["o"].kind = "str"

\* the values a producer was resumed with are None and then its own yields
DeliversPrevious(recv, yields) ==
    /\ Len(recv) \in {Len(yields), Len(yields) + 1}
    /\ \A i \in DOMAIN recv : recv[i] = IF i = 1 THEN None ELSE yields[i - 1]

\* C6: every resume delivers the item of the preceding yield, and None the
\* first time, in collect and in RenderJob.run(); every run() call resumes
\* the producer once.
C6_ResumeValue ==
    /\ \A c \in Calls : DeliversPrevious(calls[c].recv, calls[c].yields)
    /\ \A j \in DOMAIN received : DeliversPrevious(received[j], emitted[j])

\* a producer that was resumed with the Block it yielded and with the
\* Collection it yielded
C6_Witness ==
    \E c \in Calls :
        /\ \E i \in DOMAIN calls[c].recv : calls[c].recv[i].kind = "Block"
        /\ \E i \in DOMAIN calls[c].recv : calls[c].recv[i].kind = "Collection"
        /\ "o" \in DOMAIN output_maps[calls[c].oid]

\* C7: a block is appended to the ordinary-block list exactly when it gave no
\* variable definition and no output, and the list holds the blocks so
\* classified and no others.
C7_Classification ==
    \A c \in Calls :
        /\ \A i \in DOMAIN calls[c].log :
              calls[c].log[i].kept <=> (~calls[c].log[i].var /\ ~calls[c].log[i].out)
        /\ Len(block_lists[calls[c].bid]) =
              Cardinality({i \in DOMAIN calls[c].log : calls[c].log[i].kept})
        /\ \A i \in DOMAIN block_lists[calls[c].bid] :
              LET b == block_lists[calls[c].bid][i]
              IN get_variables_from_block(b) = {} /\ get_outputs_from_block(b) = {}

\* a call that classified a variable block, an output block and an ordinary
\* block
C7_Witness ==
    \E c \in Calls :
        /\ \E i \in DOMAIN calls[c].log : calls[c].log[i].var
        /\ \E i \in DOMAIN calls[c].log : calls[c].log[i].out
        /\ \E i \in DOMAIN calls[c].log : calls[c].log[i].kept

\* every call has a store, a block list and an output mapping of its own
OwnObjects ==
    \A c, d \in Calls :
        c # d => /\ calls[c].sid # calls[d].sid
                 /\ calls[c].bid # calls[d].bid
                 /\ calls[c].oid # calls[d].oid

\* a read gives the keyword of its own call, a default or an error
OwnValues ==
    \A c \in Calls : \A i \in DOMAIN calls[c].reads :
        LET r == calls[c].reads[i]
        IN IF r.name \in DOMAIN calls[c].kwargs
           THEN r.result = calls[c].kwargs[r.name]
           ELSE r.result \in {"d", "VariableNotPopulated"}

\* a step leaves the returned Collections as they are
ReturnedUnchanged ==
    \A k \in DOMAIN returned :
        /\ CollectionIter(returned[k])' = CollectionIter(returned[k])
        /\ output_maps'[returned[k].outputs] = output_maps[returned[k].outputs]

\* C8: every call has a store, a block list and an output mapping of its own;
\* a value read in a call that was given the keyword is the value of its own
\* keyword, and a value read without it is never a keyword value of another
\* call; no later step changes what a returned Collection iterates to or its
\* outputs.
C8_Isolation ==
    /\ [](OwnObjects /\ OwnValues)
    /\ [][ReturnedUnchanged]_vars

\* two top-level calls with different keyword values returned Collections
\* whose outputs differ
C8_Witness ==
    /\ Len(returned) >= 2
    /\ calls[CallOf(returned[1])].kwargs # calls[CallOf(returned[2])].kwargs
    /\ "o" \in DOMAIN output_maps[returned[1].outputs]
    /\ "o" \in DOMAIN output_maps[returned[2].outputs]
    /\ output_maps[returned[1].outputs]["o"] # output_maps[returned[2].outputs]["o"]

\* the steps of a render, and a render that goes on as long as it can: the
\* single thread of process_jobs does not stop between two steps
NextRender == Stop \/ Yield \/ Wait \/ WaitOk \/ WaitFail \/ RenderReturn

RenderSpec == InitRender /\ [][NextRender]_vars /\ WF_vars(NextRender)

Ended == status \in {"returned", "aborted"}

\* a circular dependency with the pending stack exhausted: the job in flight
\* in the outer frame waits for y and would supply x, the job in flight in the
\* frame nested in it waits for x and would supply y
CircularWait ==
    /\ status = "running"
    /\ Depth = 3
    /\ jobs = <<>>
    /\ stack[1].step = Step("y", "set_x") /\ stack[2].until = "y"
    /\ stack[2].step = Step("x", "set_y") /\ stack[3].until = "x"
    /\ stack[1].job # stack[2].job
    /\ ~Contains(variables, "x") /\ ~Contains(variables, "y")

\* C14: with producers that yield finitely often, render() ends, returning
\* the result or aborting with an error; the nesting of process_jobs frames
\* never exceeds one frame per job in flight; a circular dependency between
\* two files ends, at the next step, with VariableNotPopulated.
C14_Terminates ==
    /\ <>Ended
    /\ [](Depth <= NumFiles + 1)
    /\ [][CircularWait => status' = "aborted" /\ error' = "VariableNotPopulated"]_vars

\* two variable-value files wait for each other and no job is left pending
C14_Witness == CircularWait

\* a re-entrant process_jobs(until=v) is at the head of its loop and v has a
\* value
UntilMet ==
    /\ status = "running"
    /\ Depth > 1
    /\ Top.job = 0
    /\ Contains(variables, Top.until)

\* C15: a re-entrant process_jobs(until=v) advances no job once v has a
\* value: the next step is the return of that call, which resumes no pending
\* job, leaves every pending job on the stack in its place and moves none to
\* the completed list.
C15_UntilChecked ==
    [][UntilMet =>
          /\ Len(stack') < Len(stack)
          /\ done' = done
          /\ Len(jobs') >= Len(jobs)
          /\ SubSeq(jobs', 1, Len(jobs)) = jobs
          /\ \A j \in Range(jobs) :
                /\ received'[j] = received[j]
                /\ gen'[j] = gen[j]
                /\ blocks'[j] = blocks[j]]_vars

\* a nested loop whose variable now has a value, with a pending job that was
\* never advanced
C15_Witness ==
    /\ UntilMet
    /\ \E j \in Range(jobs) : received[j] = <<>>
    /\ \E j \in Jobs : IsTfvars(j) /\ Len(blocks[j]) > 0

\* the step is a run() of job j that recorded a yielded item and did not raise
Recorded(j) ==
    /\ status' = "running"
    /\ Len(emitted'[j]) = Len(emitted[j]) + 1

NewBlocks(j) == unwrap_yielded(Last(emitted'[j]))

\* C16: a run() of a variable-value file job that does not raise adds the
\* values of its blocks to the store only if the store is waiting for the
\* output file of the job, and leaves the store as it is otherwise; in both
\* cases the blocks are appended to the content buffer. A run() of a
\* definition file job changes no value, only the variable definitions.
C16_ValuesWhenWaiting ==
    [][\A j \in DOMAIN emitted : Recorded(j) =>
          /\ blocks'[j] = blocks[j] \o NewBlocks(j)
          /\ IF IsTfvars(j)
             THEN IF tfvars_waiting_for(variables, output_name(j))
                  THEN /\ \A i \in DOMAIN NewBlocks(j) : \A n \in DOMAIN NewBlocks(j)[i] :
                             /\ n \in DOMAIN variables'.values
                             /\ variables'.values[n] = NewBlocks(j)[i][n]
                       /\ variables'.definitions = variables.definitions
                  ELSE variables' = variables
             ELSE /\ variables'.values = variables.values
                  /\ variables.definitions \subseteq variables'.definitions]_vars

\* a variable-value file recorded a value of x that the store does not have,
\* and a variable-value file recorded the value of y that the store has
C16_Witness ==
    /\ status = "running"
    /\ \E j \in Jobs : \E i \in DOMAIN blocks[j] :
          /\ IsTfvars(j)
          /\ "x" \in DOMAIN blocks[j][i]
          /\ "x" \in DOMAIN variables.values => variables.values["x"] # blocks[j][i]["x"]
    /\ \E j \in Jobs : \E i \in DOMAIN blocks[j] :
          /\ IsTfvars(j)
          /\ "y" \in DOMAIN blocks[j][i]
          /\ "y" \in DOMAIN variables.values
          /\ variables.values["y"] = blocks[j][i]["y"]
    /\ \E j \in Jobs : \E i \in DOMAIN blocks[j] :
          ~IsTfvars(j) /\ "variable" \in DOMAIN blocks[j][i]

\* the step notifies the store that the output file of job j exists
Notifies(j) ==
    /\ output_name(j) \notin variables.created
    /\ output_name(j) \in variables'.created

\* C17: file_created(output_name) happens for a job only on the step on which
\* its producer terminates, when every block it yielded is in the content
\* buffer, and that step puts the job in the completed list; a job in the
\* completed list is never run again, by no frame of process_jobs, so that it
\* notifies the store at most once.
C17_FileCreatedOnce ==
    [][\A j \in DOMAIN gen :
          /\ Notifies(j) =>
                /\ gen[j] = "suspended" /\ gen'[j] = "finished"
                /\ Len(received'[j]) = Len(received[j]) + 1
                /\ blocks'[j] = blocks[j] /\ blocks[j] = EmittedBlocks(j)
                /\ j \notin Range(done) /\ done' = Append(done, j)
          /\ j \in Range(done) =>
                /\ output_name(j) \in variables.created
                /\ received'[j] = received[j]
                /\ gen'[j] = gen[j]
                /\ j \in Range(done') /\ j \notin Range(jobs')]_vars

\* inside a re-entrant process_jobs, with jobs pending, a job is completed
\* that had yielded blocks
C17_Witness ==
    /\ status = "running"
    /\ Depth > 1
    /\ jobs # <<>>
    /\ \E i \in DOMAIN done :
          /\ Len(blocks[done[i]]) > 0
          /\ output_name(done[i]) \in variables.created

\* how often job j occurs in a sequence of jobs, and in the frames as the job
\* a frame has popped and is running
Count(seq, j) == Cardinality({i \in DOMAIN seq : seq[i] = j})
FlightCount(j) == Cardinality({i \in DOMAIN stack : stack[i].job = j})

\* C18: at every point of a render that has not aborted each job is in
\* exactly one place, the pending stack, the completed list or in flight in
\* one frame of process_jobs; a job in flight is not pending, and no step
\* resumes a job that is in flight.
C18_OnePlace ==
    /\ [](status \in {"running", "returned"} =>
             \A j \in Jobs : Count(jobs, j) + Count(done, j) + FlightCount(j) = 1)
    /\ [][\A j \in InFlight : received'[j] = received[j]]_vars

\* inside a re-entrant process_jobs one job is in flight, one pending after
\* it was advanced, and one completed
C18_Witness ==
    /\ status = "running"
    /\ Cardinality(InFlight) = 1
    /\ \E j \in Range(jobs) : Len(received[j]) > 0
    /\ done # <<>>

\* the renders in which no producer reads a variable that has no value: no
\* read enters process_jobs again
NextNoWait == Stop \/ Yield \/ RenderReturn

NoWaitSpec == InitRender /\ [][NextNoWait]_vars

\* C19: a job that yielded is pushed back on top of the pending stack, so it
\* is the next job advanced; when no producer triggers a variable wait, a job
\* that was advanced is completed or on top of the stack, every job completed
\* was registered after every job pending, and at the return of render() the
\* completed list is the files in reverse registration order.
C19_LastInFirstOut ==
    /\ [][\A j \in DOMAIN emitted : Recorded(j) => Last(jobs') = j]_vars
    /\ [](status \in {"running", "returned"} =>
             /\ \A j \in Jobs :
                   received[j] # <<>> =>
                       j \in Range(done) \/ (jobs # <<>> /\ j = Last(jobs))
             /\ \A j \in Range(done), k \in Range(jobs) : j > k
             /\ \A i \in DOMAIN done : done[i] = NumFiles + 1 - i)
    /\ [](status = "returned" => Len(done) = NumFiles)

\* a render without waits returned after two jobs had yielded blocks
C19_Witness ==
    /\ status = "returned"
    /\ done = [i \in 1..NumFiles |-> NumFiles + 1 - i]
    /\ Cardinality({j \in Jobs : Len(blocks[j]) > 0}) >= 2

\* C20: the done flag of a job is false while the job is pending or in flight
\* and true once the job is in the completed list.
C20_DoneFlag ==
    status \in {"running", "returned"} =>
        \A j \in Jobs : job_done[j] <=> j \in Range(done)

\* ------------------------------------------------------------ Block claims
\* the segments of a dotted path, and a mapping nested under them one key a
\* level with the mapping b at the bottom
SegmentsOf(path) == SelectSeq(path, LAMBDA t : t # ".")

RECURSIVE NestedUnder(_, _, _)
NestedUnder(m, segs, b) ==
    IF segs = <<>> THEN m = b
    ELSE DOMAIN m = {segs[1]} /\ NestedUnder(m[segs[1]], Tail(segs), b)

\* C11: flattening a Block with path s1.s2....sn and body b gives a mapping
\* nested exactly n levels deep under the segment names with the fields of b
\* at the bottom, {s1: b} for a single segment; flattening leaves the path and
\* the body of the Block as they were.
C11_Flattening ==
    /\ [](derived.op = "iter" =>
             NestedUnder(derived.value, SegmentsOf(tf_block.path), tf_block.body))
    /\ [][derived'.op = "iter" => tf_block' = tf_block]_vars

\* a Block with three segments and a body with a field was flattened
C11_Witness ==
    /\ derived.op = "iter"
    /\ Len(SegmentsOf(tf_block.path)) = 3
    /\ tf_block.body = ("name" :> "n")
    /\ derived.value[tf_block.path[1]][tf_block.path[3]][tf_block.path[5]] = ("name" :> "n")

\* the dotted path a reference starts with: a leading resource segment
\* dropped, a leading variable segment rewritten to var
ReferencePath(path) ==
    IF path[1] = "resource" THEN SubSeq(path, 3, Len(path))
    ELSE IF path[1] = "variable" THEN <<"var">> \o Tail(path)
    ELSE path

Dotted(path, name) == IF path = <<>> THEN <<name>> ELSE path \o <<".", name>>

\* C12: attribute access `name` on a Block that is no provider returns a
\* Reference Expression whose textual form is ${...} around the path of the
\* Block, a leading resource segment dropped or a leading variable segment
\* rewritten to var, with .name appended; resource.aws_iam_user.peanut and arn
\* give ${aws_iam_user.peanut.arn}; the access leaves the Block as it was.
C12_Reference ==
    /\ [](derived.op = "getattr" /\ tf_block.path[1] # "provider" =>
             /\ derived.value.kind = "Interpolated"
             /\ str(derived.value) =
                   <<"${">> \o Dotted(ReferencePath(tf_block.path), derived.name) \o <<"}">>
             /\ (tf_block.path = <<"resource", ".", "aws_iam_user", ".", "peanut">>
                    /\ derived.name = "arn" =>
                        str(derived.value) =
                            <<"${", "aws_iam_user", ".", "peanut", ".", "arn", "}">>))
    /\ [][derived'.op = "getattr" => tf_block' = tf_block]_vars

\* the attribute arn of the Block resource.aws_iam_user.peanut was read
C12_Witness ==
    /\ derived.op = "getattr"
    /\ derived.name = "arn"
    /\ tf_block.kind = "Block"
    /\ tf_block.path = <<"resource", ".", "aws_iam_user", ".", "peanut">>
    /\ derived.value.kind = "Interpolated"

\* an attribute of a Block whose path is provider.<type>... was read
ProviderRead ==
    /\ derived.op = "getattr"
    /\ tf_block.path[1] = "provider"
    /\ Len(SegmentsOf(tf_block.path)) >= 2

====
